---- MODULE Spec2Model ----
(***************************************************************************)
(* Bootstrap consensus-aggregation engine of the Samples Clustering        *)
(* Pipeline (src/src/sample_clustering_toolbox.py, with the knpackage      *)
(* toolbox functions it calls as listed in src/test/unit/toolbox_test.py). *)
(*                                                                         *)
(* Two specifications share the variables and the aggregation actions:     *)
(*   Spec     one call of run_cc_nmf / run_cc_net_nmf: temp directory,     *)
(*            dispatch, replicate workers, aggregation, teardown;          *)
(*   SpecAgg  form_consensus_matrix called on a directory that already     *)
(*            holds any set of well-formed records, and called again with  *)
(*            matrices "from initialization or previous call".             *)
(*                                                                         *)
(* Modelling decisions:                                                    *)
(*   - a file name is the record [dir, prefix, seq, stamp] of the parts    *)
(*     the code concatenates; os.listdir order is arbitrary, so a loop     *)
(*     over dir_list takes the entries still to visit in any order;        *)
(*   - each "with open(...): dump" is one atomic step; a worker can crash  *)
(*     before, between and after its two writes;                           *)
(*   - the accumulators are float arrays holding small integers (exact);   *)
(*     a quotient is kept as the reduced fraction <<num, den>>, den = 0    *)
(*     standing for numpy's nan/inf.                                       *)
(***************************************************************************)
EXTENDS Integers, Sequences, FiniteSets, TLC

\* ---------------------------------------------------------------- bounds
NumSamples == 2      \* columns of the spreadsheet (sample index space 0..N-1)
NumClusters == 2     \* run_parameters['k'], rows of H
NumBootstraps == 2   \* run_parameters['number_of_bootstraps'] in Spec
MaxRecords == 3      \* records in the directory at the start of SpecAgg
MaxStamp == 1        \* timestamps are drawn from 0..MaxStamp
MaxH == 1            \* entries of H are drawn from 0..MaxH
MaxCalls == 2        \* calls of form_consensus_matrix in SpecAgg

Samples == 0 .. (NumSamples - 1)
Clusters == 0 .. (NumClusters - 1)
Workers == 0 .. (NumBootstraps - 1)
Stamps == 0 .. MaxStamp

Methods == {"serial", "parallel", "distribute"}
BadMethod == "bogus"

VARIABLES
  wrapper,            \* "cc_nmf" | "cc_net_nmf": which wrapper is running
  processing_method,  \* run_parameters['processing_method']
  tmp_directory,      \* run_parameters['tmp_directory'] (NoDir before it is set)
  pc,                 \* position of the calling thread
  err,                \* the exception that ended the run ("none" if none)
  dirs,               \* directories that exist
  files,              \* the files that exist: name -> content
  sample,             \* loop variable of the serial loop
  wstate,             \* per worker: "idle" | "running" | "saving" | "done" | "failed"
  wlocal,             \* per worker: its locals between the two writes
  linkage_matrix,
  indicator_matrix,
  consensus_matrix,
  dir_list,           \* entries of the current os.listdir still to be visited
  scannedI,           \* temp_p names the indicator pass has loaded
  scannedL,           \* temp_p names the linkage pass has loaded
  reads,              \* np.load calls per file name in the current aggregation
  calls,              \* number of form_consensus_matrix calls begun
  handed,             \* what the current call was handed
  first               \* result of the first form_consensus_matrix call

vars == <<wrapper, processing_method, tmp_directory, pc, err, dirs, files, sample,
          wstate, wlocal, linkage_matrix, indicator_matrix, consensus_matrix,
          dir_list, scannedI, scannedL, reads, calls, handed, first>>

fsVars == <<dirs, files>>
workerVars == <<sample, wstate, wlocal>>
aggVars == <<linkage_matrix, indicator_matrix, consensus_matrix, dir_list,
             scannedI, scannedL, reads, calls, handed, first>>
paramVars == <<wrapper, processing_method>>

\* ------------------------------------------------------------- helpers
Range(s) == {s[x] : x \in DOMAIN s}

Max2(a, b) == IF a >= b THEN a ELSE b

SeqMax(s) == CHOOSE m \in Range(s) : \A x \in Range(s) : x <= m

RECURSIVE GCD(_, _)
GCD(a, b) == IF b = 0 THEN a ELSE GCD(b, a % b)

\* sequences over S of length exactly n with pairwise distinct entries
DistinctSeqs(S, n) == {s \in [1 .. n -> S] : \A x, y \in 1 .. n : x # y => s[x] # s[y]}

NoDir == [root |-> "", base |-> ""]
NoMatrix == <<>>
\* no file has been loaded
NoReads == [f \in {} |-> 0]

\* np.load of every file of fs: one more read of each
Load(r, fs) ==
  [f \in DOMAIN r \cup fs |->
     (IF f \in DOMAIN r THEN r[f] ELSE 0) + (IF f \in fs THEN 1 ELSE 0)]

NoLocal == [perm |-> <<>>, h |-> [c \in Clusters |-> <<>>], stamp |-> 0]
ZeroMatrix == [ij \in Samples \X Samples |-> 0]

\* ------------------------------------------------- knpackage.toolbox
\* mutant: the scan keeps the last row holding the maximum (>= for >)
RECURSIVE ArgMaxScan_last(_, _, _, _)
ArgMaxScan_last(h, col, c, best) ==
  IF c \notin DOMAIN h THEN best
  ELSE ArgMaxScan_last(h, col, c + 1, IF h[c][col] >= h[best][col] THEN c ELSE best)

\* np.argmax(h_matrix, 0): per column the first row index holding the maximum.
\* h is a function Clusters -> (1..n -> 0..MaxH), n the number of columns.
RECURSIVE ArgMaxScan(_, _, _, _)
ArgMaxScan(h, col, c, best) ==
  IF c \notin DOMAIN h THEN best
  ELSE ArgMaxScan(h, col, c + 1, IF h[c][col] > h[best][col] THEN c ELSE best)

ArgMaxColumn_last(h, col) == ArgMaxScan_last(h, col, 1, 0)

ArgMaxColumn(h, col) == ArgMaxScan(h, col, 1, 0)

ArgMax0(h, n) == [col \in 1 .. n |-> ArgMaxColumn(h, col)]

\* mutant: indicator_matrix[sample_perm, sample_perm] += 1 (the [:, None] lost:
\* only the diagonal cells of the retained samples are incremented)
update_indicator_matrix_diagonal(sample_perm, m) ==
  [ij \in Samples \X Samples |->
     IF ij[1] \in Range(sample_perm) /\ ij[1] = ij[2] THEN m[ij] + 1 ELSE m[ij]]

\* mutant: indicator_matrix[sample_perm, :] += 1 (whole rows of the retained
\* samples, whatever the column)
update_indicator_matrix_rows(sample_perm, m) ==
  [ij \in Samples \X Samples |->
     IF ij[1] \in Range(sample_perm) THEN m[ij] + 1 ELSE m[ij]]

\* indicator_matrix[sample_perm[:, None], sample_perm] += 1
\* (buffered fancy-index increment: every addressed cell gains exactly 1)
update_indicator_matrix(sample_perm, m) ==
  [ij \in Samples \X Samples |->
     IF ij[1] \in Range(sample_perm) /\ ij[2] \in Range(sample_perm)
       THEN m[ij] + 1 ELSE m[ij]]

\* slice_id = sample_perm[cluster_id == cluster]
SliceId(cluster_id, sample_perm, cluster) ==
  {sample_perm[x] : x \in {y \in DOMAIN sample_perm : cluster_id[y] = cluster}}

\* mutant: each co-clustered pair counted once, in the upper triangle only
BumpSlice_upper(m, slice_id) ==
  [ij \in Samples \X Samples |->
     IF ij[1] \in slice_id /\ ij[2] \in slice_id /\ ij[1] <= ij[2]
       THEN m[ij] + 1 ELSE m[ij]]

\* linkage_matrix[slice_id[:, None], slice_id] += 1
BumpSlice(m, slice_id) ==
  [ij \in Samples \X Samples |->
     IF ij[1] \in slice_id /\ ij[2] \in slice_id THEN m[ij] + 1 ELSE m[ij]]

\* for cluster in range(0, num_clusters): ... (iterations cluster..num_clusters-1)
RECURSIVE LinkageLoop(_, _, _, _, _)
LinkageLoop(cluster, num_clusters, cluster_id, sample_perm, m) ==
  IF cluster >= num_clusters THEN m
  ELSE LinkageLoop(cluster + 1, num_clusters, cluster_id, sample_perm,
                   BumpSlice(m, SliceId(cluster_id, sample_perm, cluster)))

\* mutant: for cluster in range(1, num_clusters) (cluster 0 never linked)
update_linkage_matrix_from_one(encode_mat, sample_perm, m) ==
  LinkageLoop(1, SeqMax(encode_mat) + 1, encode_mat, sample_perm, m)

\* mutant: the connectivity of the record is assigned, not accumulated
\* (linkage_matrix[perm x perm] = same-cluster mask)
update_linkage_matrix_overwrite(encode_mat, sample_perm, m) ==
  [ij \in Samples \X Samples |->
     IF ij[1] \in Range(sample_perm) /\ ij[2] \in Range(sample_perm)
       THEN (IF encode_mat[CHOOSE x \in DOMAIN sample_perm : sample_perm[x] = ij[1]]
                = encode_mat[CHOOSE x \in DOMAIN sample_perm : sample_perm[x] = ij[2]]
               THEN 1 ELSE 0)
       ELSE m[ij]]

\* encode_mat.ndim == 1 branch (the persisted temp_h is the argmax vector):
\* num_clusters = max(encode_mat) + 1 raises ValueError on an empty vector.
update_linkage_raises(encode_mat) == Len(encode_mat) = 0

update_linkage_matrix(encode_mat, sample_perm, m) ==
  LinkageLoop(0, SeqMax(encode_mat) + 1, encode_mat, sample_perm, m)

\* ------------------------------------------------ float quotients
NaN == <<0, 0>>
Inf == <<1, 0>>

\* a / b on floats holding integers a >= 0, b >= 0: the exact quotient decides
\* the rounded result, so the reduced fraction identifies it.
TrueDivide(a, b) ==
  IF b = 0 THEN (IF a = 0 THEN NaN ELSE Inf)
  ELSE <<a \div GCD(a, b), b \div GCD(a, b)>>

\* mutant: linkage_matrix / (indicator_matrix + 1)
ConsensusOf_plus_one(l, i) ==
  [ij \in Samples \X Samples |-> TrueDivide(l[ij], i[ij] + 1)]

\* mutant: linkage_matrix / indicator_matrix (the floor of 1 lost)
ConsensusOf_no_floor(l, i) ==
  [ij \in Samples \X Samples |-> TrueDivide(l[ij], i[ij])]

\* mutant: indicator_matrix / np.maximum(linkage_matrix, 1) (operands swapped)
ConsensusOf_swapped(l, i) ==
  [ij \in Samples \X Samples |-> TrueDivide(i[ij], Max2(l[ij], 1))]

\* consensus_matrix = linkage_matrix / np.maximum(indicator_matrix, 1)
ConsensusOf(l, i) ==
  [ij \in Samples \X Samples |-> TrueDivide(l[ij], Max2(i[ij], 1))]

\* ------------------------------------------------------- file names
\* mutant: the replicate id left out of the file name ('_N' alone)
FileName_no_seq(dir, prefix, seq, stamp) ==
  [dir |-> dir, prefix |-> prefix, seq |-> 0, stamp |-> stamp]

\* 'temp_h' + time_stamp and 'temp_p' + time_stamp under tmp_dir, where
\* time_stamp = '_N' + str(sequence_number) + '_' + <timestamp digits>
FileName(dir, prefix, seq, stamp) ==
  [dir |-> dir, prefix |-> prefix, seq |-> seq, stamp |-> stamp]

\* tmp_f[0:5] + 'h' + tmp_f[6:len(tmp_f)]
HNameOf(pname) == [pname EXCEPT !.prefix = "temp_h"]

\* os.listdir(d)
ListDir(d) == {f \in DOMAIN files : f.dir = d}

\* mutant: the prefix test compares five characters ('temp_'), so the
\* temp_h files pass it too
TempP_all(names) == {f \in names : f.prefix \in {"temp_p", "temp_h"}}

\* the entries that pass tmp_f[0:6] == 'temp_p'
TempP(names) == {f \in names : f.prefix = "temp_p"}

\* kn.create_dir(dir_path, dir_name): dir_name + timestamp under dir_path
CreateDirName(dir_path, dir_name) == [root |-> dir_path, base |-> dir_name]

\* the directory get_indicator_matrix / get_linkage_matrix list:
\* join(cluster_shared_volumn, basename(normpath(tmp_directory))) in
\* 'distribute' mode, tmp_directory otherwise
ScanDir ==
  IF processing_method = "distribute"
    THEN [root |-> "cluster_shared_volumn", base |-> tmp_directory.base]
    ELSE tmp_directory

\* the function f with name n (re)written to content c: open(n, 'wb') + dump
WriteFile(f, n, c) == [x \in (DOMAIN f) \cup {n} |-> IF x = n THEN c ELSE f[x]]

\* --------------------------------------------------------------- Init
NoResult == [linkage |-> NoMatrix, indicator |-> NoMatrix, consensus |-> NoMatrix]

Init ==
  /\ wrapper \in {"cc_nmf", "cc_net_nmf"}
  /\ processing_method \in Methods \cup {BadMethod}
  /\ tmp_directory = NoDir
  /\ pc = "start"
  /\ err = "none"
  /\ dirs = {}
  /\ files = <<>>
  /\ sample = 0
  /\ wstate = [w \in Workers |-> "idle"]
  /\ wlocal = [w \in Workers |-> NoLocal]
  /\ linkage_matrix = NoMatrix
  /\ indicator_matrix = NoMatrix
  /\ consensus_matrix = NoMatrix
  /\ dir_list = {}
  /\ scannedI = {}
  /\ scannedL = {}
  /\ reads = NoReads
  /\ calls = 0
  /\ handed = "none"
  /\ first = NoResult

\* ------------------------------------------- run_cc_nmf / run_cc_net_nmf
\* tmp_dir = 'tmp_cc_nmf' | 'tmp_cc_net_nmf'
TmpDirPrefix == IF wrapper = "cc_nmf" THEN "tmp_cc_nmf" ELSE "tmp_cc_net_nmf"

\* mutant: the 'distribute' branch is missing, the directory is always
\* created under the run directory
update_tmp_directory_local ==
  /\ pc = "start"
  /\ LET d == CreateDirName("run_directory", TmpDirPrefix)
     IN /\ tmp_directory' = d
        /\ dirs' = dirs \cup {d}
  /\ pc' = "dispatch"
  /\ UNCHANGED <<paramVars, err, files, workerVars, aggVars>>

\* update_tmp_directory: kn.create_dir (os.mkdir) under the shared volume in
\* 'distribute' mode, under the run directory for every other value
update_tmp_directory ==
  /\ pc = "start"
  /\ LET d == IF processing_method = "distribute"
                THEN CreateDirName("cluster_shared_volumn", TmpDirPrefix)
                ELSE CreateDirName("run_directory", TmpDirPrefix)
     IN /\ tmp_directory' = d
        /\ dirs' = dirs \cup {d}
  /\ pc' = "dispatch"
  /\ UNCHANGED <<paramVars, err, files, workerVars, aggVars>>

\* mutant: the final else runs the serial loop instead of raising
Dispatch_fallback ==
  /\ pc = "dispatch"
  /\ \/ /\ processing_method \in {"parallel", "distribute"}
        /\ wstate' = [w \in Workers |-> "running"]
        /\ pc' = "fanout"
        /\ UNCHANGED <<err, sample>>
     \/ /\ processing_method \notin {"parallel", "distribute"}
        /\ sample' = 0
        /\ pc' = "serial_loop"
        /\ UNCHANGED <<err, wstate>>
  /\ UNCHANGED <<paramVars, tmp_directory, fsVars, wlocal, aggVars>>

\* the if / elif / else on run_parameters['processing_method']
Dispatch ==
  /\ pc = "dispatch"
  /\ \/ /\ processing_method \in {"parallel", "distribute"}
        /\ wstate' = [w \in Workers |-> "running"]
        /\ pc' = "fanout"
        /\ UNCHANGED <<err, sample>>
     \/ /\ processing_method = "serial"
        /\ sample' = 0
        /\ pc' = "serial_loop"
        /\ UNCHANGED <<err, wstate>>
     \/ /\ processing_method \notin Methods
        /\ pc' = "error"
        /\ err' = "ValueError: processing_method contains bad value."
        /\ UNCHANGED <<sample, wstate>>
  /\ UNCHANGED <<paramVars, tmp_directory, fsVars, wlocal, aggVars>>

\* for sample in range(0, number_of_bootstraps): the call of the worker
SerialIter ==
  /\ pc = "serial_loop"
  /\ sample < NumBootstraps
  /\ wstate[sample] = "idle"
  /\ wstate' = [wstate EXCEPT ![sample] = "running"]
  /\ UNCHANGED <<paramVars, tmp_directory, pc, err, fsVars, sample, wlocal, aggVars>>

\* mutant: the loop is left after its first iteration
SerialReturn_once ==
  /\ pc = "serial_loop"
  /\ sample < NumBootstraps
  /\ wstate[sample] = "done"
  /\ sample' = sample + 1
  /\ pc' = "zeros"
  /\ UNCHANGED <<paramVars, tmp_directory, err, fsVars, wstate, wlocal, aggVars>>

\* the worker returned: next iteration, or the loop ends and line 107 follows
SerialReturn ==
  /\ pc = "serial_loop"
  /\ sample < NumBootstraps
  /\ wstate[sample] = "done"
  /\ sample' = sample + 1
  /\ pc' = IF sample + 1 = NumBootstraps THEN "zeros" ELSE "serial_loop"
  /\ UNCHANGED <<paramVars, tmp_directory, err, fsVars, wstate, wlocal, aggVars>>

\* the worker raised in the calling thread: the exception leaves the wrapper
SerialRaise ==
  /\ pc = "serial_loop"
  /\ sample < NumBootstraps
  /\ wstate[sample] = "failed"
  /\ pc' = "error"
  /\ err' = "worker"
  /\ UNCHANGED <<paramVars, tmp_directory, fsVars, workerVars, aggVars>>

AllFinished == \A w \in Workers : wstate[w] \in {"done", "failed"}

\* find_and_save_cc_*_clusters_parallel returns (directly or through
\* execute_distribute_computing_job): the pool join / job-completion signal.
\* Whether a failed task is re-raised in the caller is the backend's choice.
ParallelReturn ==
  /\ pc = "fanout"
  /\ AllFinished
  /\ \/ /\ pc' = "zeros"
        /\ UNCHANGED err
     \/ /\ \E w \in Workers : wstate[w] = "failed"
        /\ pc' = "error"
        /\ err' = "worker"
  /\ UNCHANGED <<paramVars, tmp_directory, fsVars, workerVars, aggVars>>

\* ------------------------------------------------- replicate worker
\* mutant: the two dumps in the other order, the permutation file first
WorkerSaveH_p_first(w) ==
  /\ pc \in {"fanout", "serial_loop"}
  /\ wstate[w] = "running"
  /\ \E n \in 0 .. NumSamples :
       \E sample_permutation \in DistinctSeqs(Samples, n) :
         \E h_matrix \in [Clusters -> [1 .. n -> 0 .. MaxH]] :
           \E time_stamp \in Stamps :
             /\ dirs' = dirs \cup {tmp_directory}
             /\ files' = WriteFile(files, FileName(tmp_directory, "temp_p", w, time_stamp),
                                   sample_permutation)
             /\ wlocal' = [wlocal EXCEPT ![w] = [perm |-> sample_permutation,
                                                 h |-> h_matrix,
                                                 stamp |-> time_stamp]]
  /\ wstate' = [wstate EXCEPT ![w] = "saving"]
  /\ UNCHANGED <<paramVars, tmp_directory, pc, err, sample, aggVars>>

\* run_cc_*_clusters_worker up to the first write of save_a_clustering_to_tmp:
\* sample_a_matrix (a prefix of a random permutation, columns without signal
\* dropped), the factorization (any H of k rows), time_stamp, os.makedirs,
\* cluster_id = argmax(H, 0), dump to temp_h<time_stamp>
WorkerSaveH(w) ==
  /\ pc \in {"fanout", "serial_loop"}
  /\ wstate[w] = "running"
  /\ \E n \in 0 .. NumSamples :
       \E sample_permutation \in DistinctSeqs(Samples, n) :
         \E h_matrix \in [Clusters -> [1 .. n -> 0 .. MaxH]] :
           \E time_stamp \in Stamps :
             /\ dirs' = dirs \cup {tmp_directory}
             /\ files' = WriteFile(files, FileName(tmp_directory, "temp_h", w, time_stamp),
                                   ArgMax0(h_matrix, n))
             /\ wlocal' = [wlocal EXCEPT ![w] = [perm |-> sample_permutation,
                                                 h |-> h_matrix,
                                                 stamp |-> time_stamp]]
  /\ wstate' = [wstate EXCEPT ![w] = "saving"]
  /\ UNCHANGED <<paramVars, tmp_directory, pc, err, sample, aggVars>>

\* mutant: the permutation dumped under the assignment's file name
\* (pname built with 'temp_h')
WorkerSaveP_as_h(w) ==
  /\ pc \in {"fanout", "serial_loop"}
  /\ wstate[w] = "saving"
  /\ files' = WriteFile(files, FileName(tmp_directory, "temp_h", w, wlocal[w].stamp),
                        wlocal[w].perm)
  /\ wstate' = [wstate EXCEPT ![w] = "done"]
  /\ wlocal' = [wlocal EXCEPT ![w] = NoLocal]
  /\ UNCHANGED <<paramVars, tmp_directory, pc, err, dirs, sample, aggVars>>

\* the second write: sample_permutation dumped to temp_p<time_stamp>
WorkerSaveP(w) ==
  /\ pc \in {"fanout", "serial_loop"}
  /\ wstate[w] = "saving"
  /\ files' = WriteFile(files, FileName(tmp_directory, "temp_p", w, wlocal[w].stamp),
                        wlocal[w].perm)
  /\ wstate' = [wstate EXCEPT ![w] = "done"]
  /\ wlocal' = [wlocal EXCEPT ![w] = NoLocal]
  /\ UNCHANGED <<paramVars, tmp_directory, pc, err, dirs, sample, aggVars>>

\* the worker crashes, times out or is lost: before or between its writes
WorkerFail(w) ==
  /\ pc \in {"fanout", "serial_loop"}
  /\ wstate[w] \in {"running", "saving"}
  /\ wstate' = [wstate EXCEPT ![w] = "failed"]
  /\ wlocal' = [wlocal EXCEPT ![w] = NoLocal]
  /\ UNCHANGED <<paramVars, tmp_directory, pc, err, fsVars, sample, aggVars>>

\* ---------------------------------------------------- aggregation
\* mutant: np.empty in place of np.zeros (whatever the memory holds, here ones)
Zeros_empty ==
  /\ pc = "zeros"
  /\ linkage_matrix' = [ij \in Samples \X Samples |-> 1]
  /\ indicator_matrix' = [ij \in Samples \X Samples |-> 1]
  /\ calls' = 1
  /\ handed' = "initialization"
  /\ pc' = "get_indicator"
  /\ UNCHANGED <<paramVars, tmp_directory, err, fsVars, workerVars,
                 consensus_matrix, dir_list, scannedI, scannedL, reads, first>>

\* linkage_matrix = np.zeros((n, n)); indicator_matrix = linkage_matrix.copy()
Zeros ==
  /\ pc = "zeros"
  /\ linkage_matrix' = ZeroMatrix
  /\ indicator_matrix' = ZeroMatrix
  /\ calls' = 1
  /\ handed' = "initialization"
  /\ pc' = "get_indicator"
  /\ UNCHANGED <<paramVars, tmp_directory, err, fsVars, workerVars,
                 consensus_matrix, dir_list, scannedI, scannedL, reads, first>>

\* get_indicator_matrix: tmp_dir and dir_list = os.listdir(tmp_dir)
GetIndicatorListdir ==
  /\ pc = "get_indicator"
  /\ IF ScanDir \in dirs
       THEN /\ dir_list' = ListDir(ScanDir)
            /\ pc' = "indicator_loop"
            /\ UNCHANGED err
       ELSE /\ pc' = "error"
            /\ err' = "FileNotFoundError"
            /\ UNCHANGED dir_list
  /\ scannedI' = {}
  /\ scannedL' = {}
  /\ reads' = NoReads
  /\ UNCHANGED <<paramVars, tmp_directory, fsVars, workerVars, linkage_matrix,
                 indicator_matrix, consensus_matrix, calls, handed, first>>

\* one iteration of get_indicator_matrix's loop that finds a temp_p file
IndicatorStep ==
  /\ pc = "indicator_loop"
  /\ \E tmp_f \in TempP(dir_list) :
       /\ indicator_matrix' = update_indicator_matrix(files[tmp_f], indicator_matrix)
       /\ dir_list' = dir_list \ {tmp_f}
       /\ scannedI' = scannedI \cup {tmp_f}
       /\ reads' = Load(reads, {tmp_f})
  /\ UNCHANGED <<paramVars, tmp_directory, pc, err, fsVars, workerVars, linkage_matrix,
                 consensus_matrix, scannedL, calls, handed, first>>

\* get_indicator_matrix returns; get_linkage_matrix lists the directory again
GetLinkageListdir ==
  /\ pc = "indicator_loop"
  /\ TempP(dir_list) = {}
  /\ dir_list' = ListDir(ScanDir)
  /\ pc' = "linkage_loop"
  /\ UNCHANGED <<paramVars, tmp_directory, err, fsVars, workerVars, linkage_matrix,
                 indicator_matrix, consensus_matrix, scannedI, scannedL, reads,
                 calls, handed, first>>

\* one iteration of get_linkage_matrix's loop that finds a temp_p file:
\* load it, load the temp_h of the same suffix, update (or raise)
LinkageStep ==
  /\ pc = "linkage_loop"
  /\ \E tmp_f \in TempP(dir_list) :
       /\ dir_list' = dir_list \ {tmp_f}
       /\ scannedL' = scannedL \cup {tmp_f}
       /\ reads' = Load(reads, {tmp_f} \cup ({HNameOf(tmp_f)} \cap DOMAIN files))
       /\ IF HNameOf(tmp_f) \notin DOMAIN files
            THEN /\ pc' = "error"
                 /\ err' = "FileNotFoundError"
                 /\ UNCHANGED linkage_matrix
            ELSE IF update_linkage_raises(files[HNameOf(tmp_f)])
            THEN /\ pc' = "error"
                 /\ err' = "ValueError: max() arg is an empty sequence"
                 /\ UNCHANGED linkage_matrix
            ELSE /\ linkage_matrix' = update_linkage_matrix(files[HNameOf(tmp_f)],
                                                            files[tmp_f], linkage_matrix)
                 /\ UNCHANGED <<pc, err>>
  /\ UNCHANGED <<paramVars, tmp_directory, fsVars, workerVars, indicator_matrix,
                 consensus_matrix, scannedI, calls, handed, first>>

\* get_linkage_matrix returns; form_consensus_matrix divides and returns
FormConsensus ==
  /\ pc = "linkage_loop"
  /\ TempP(dir_list) = {}
  /\ consensus_matrix' = ConsensusOf(linkage_matrix, indicator_matrix)
  /\ first' = IF calls = 1
                THEN [linkage |-> linkage_matrix, indicator |-> indicator_matrix,
                      consensus |-> consensus_matrix']
                ELSE first
  /\ dir_list' = {}
  /\ pc' = "returned"
  /\ UNCHANGED <<paramVars, tmp_directory, err, fsVars, workerVars, linkage_matrix,
                 indicator_matrix, scannedI, scannedL, reads, calls, handed>>

\* kn.perform_kmeans and the save_* calls (results directory, not modelled)
PostProcess ==
  /\ pc = "returned"
  /\ \/ /\ pc' = "teardown"
        /\ UNCHANGED err
     \/ /\ pc' = "error"
        /\ err' = "postprocess"
  /\ UNCHANGED <<paramVars, tmp_directory, fsVars, workerVars, aggVars>>

\* mutant: the files are removed but the final os.rmdir is left out
RemoveDir_keep_dir ==
  /\ pc = "teardown"
  /\ files' = [f \in {g \in DOMAIN files : g.dir # tmp_directory} |-> files[f]]
  /\ pc' = "done"
  /\ UNCHANGED <<paramVars, tmp_directory, err, dirs, workerVars, aggVars>>

\* kn.remove_dir(run_parameters["tmp_directory"]): os.remove every listed file,
\* then os.rmdir
RemoveDir ==
  /\ pc = "teardown"
  /\ files' = [f \in {g \in DOMAIN files : g.dir # tmp_directory} |-> files[f]]
  /\ dirs' = dirs \ {tmp_directory}
  /\ pc' = "done"
  /\ UNCHANGED <<paramVars, tmp_directory, err, workerVars, aggVars>>

Next ==
  \/ update_tmp_directory
  \/ Dispatch
  \/ SerialIter
  \/ SerialReturn
  \/ SerialRaise
  \/ ParallelReturn
  \/ \E w \in Workers : WorkerSaveH(w)
  \/ \E w \in Workers : WorkerSaveP(w)
  \/ \E w \in Workers : WorkerFail(w)
  \/ Zeros
  \/ GetIndicatorListdir
  \/ IndicatorStep
  \/ GetLinkageListdir
  \/ LinkageStep
  \/ FormConsensus
  \/ PostProcess
  \/ RemoveDir

Spec == Init /\ [][Next]_vars

\* ------------------------------------- form_consensus_matrix on its own
\* The records a directory can hold: for each sequence number at most one
\* well-formed record (distinct sample indices, one cluster id per entry).
RecordContents ==
  UNION {DistinctSeqs(Samples, n) \X [1 .. n -> Clusters] : n \in 0 .. NumSamples}

Absent == <<>>

\* the files of one choice: per sequence number Absent or <<perm, cluster_id>>
StoreOf(d, choice) ==
  LET present == {q \in DOMAIN choice : choice[q] # Absent}
      names == {FileName(d, pre, q, 0) : pre \in {"temp_h", "temp_p"}, q \in present}
  IN [f \in names |-> IF f.prefix = "temp_p" THEN choice[f.seq][1] ELSE choice[f.seq][2]]

InitAgg ==
  /\ wrapper = "cc_nmf"
  /\ processing_method \in {"serial", "distribute"}
  /\ tmp_directory = IF processing_method = "distribute"
                       THEN CreateDirName("cluster_shared_volumn", TmpDirPrefix)
                       ELSE CreateDirName("run_directory", TmpDirPrefix)
  /\ pc = "get_indicator"
  /\ err = "none"
  /\ dirs = {tmp_directory}
  /\ \E choice \in [0 .. (MaxRecords - 1) -> RecordContents \cup {Absent}] :
       files = StoreOf(tmp_directory, choice)
  /\ sample = 0
  /\ wstate = [w \in Workers |-> "idle"]
  /\ wlocal = [w \in Workers |-> NoLocal]
  /\ linkage_matrix = ZeroMatrix
  /\ indicator_matrix = ZeroMatrix
  /\ consensus_matrix = NoMatrix
  /\ dir_list = {}
  /\ scannedI = {}
  /\ scannedL = {}
  /\ reads = NoReads
  /\ calls = 1
  /\ handed = "initialization"
  /\ first = NoResult

\* the caller calls form_consensus_matrix again, handing it fresh zero
\* matrices or the arrays of the previous call (updated in place by it)
CallAgain ==
  /\ pc = "returned"
  /\ calls < MaxCalls
  /\ \E hd \in {"initialization", "previous call"} :
       /\ handed' = hd
       /\ linkage_matrix' = IF hd = "initialization" THEN ZeroMatrix ELSE linkage_matrix
       /\ indicator_matrix' = IF hd = "initialization" THEN ZeroMatrix ELSE indicator_matrix
  /\ calls' = calls + 1
  /\ pc' = "get_indicator"
  /\ UNCHANGED <<paramVars, tmp_directory, err, fsVars, workerVars, consensus_matrix,
                 dir_list, scannedI, scannedL, reads, first>>

NextAgg ==
  \/ GetIndicatorListdir
  \/ IndicatorStep
  \/ GetLinkageListdir
  \/ LinkageStep
  \/ FormConsensus
  \/ CallAgain

SpecAgg == InitAgg /\ [][NextAgg]_vars

\* ============================================================ properties
\* the persisted records the aggregator enumerates: the temp_p names
Records == TempP(ListDir(ScanDir))

PermOf(p) == files[p]
AssignmentOf(p) == files[HNameOf(p)]
IndexOf(perm, i) == CHOOSE x \in DOMAIN perm : perm[x] = i

\* record p retains both i and j
Together(p, i, j) == i \in Range(PermOf(p)) /\ j \in Range(PermOf(p))

\* record p retains both i and j and gives them the same cluster id
SameCluster(p, i, j) ==
  /\ Together(p, i, j)
  /\ AssignmentOf(p)[IndexOf(PermOf(p), i)] = AssignmentOf(p)[IndexOf(PermOf(p), j)]

Accumulating == linkage_matrix # NoMatrix /\ indicator_matrix # NoMatrix

\* C1: at every point of aggregation and at its end, I[i][j] >= L[i][j] for
\* all sample indices i, j, whatever well-formed records the directory holds.
C1_IndicatorBoundsLinkage ==
  Accumulating =>
    \A ij \in Samples \X Samples : indicator_matrix[ij] >= linkage_matrix[ij]

\* C1 witness: in the middle of the linkage pass, one record counted by both
\* updates and one still to come, with a cell where I exceeds L and L > 0 elsewhere.
C1_Witness ==
  /\ pc = "linkage_loop"
  /\ scannedL # {}
  /\ TempP(dir_list) # {}
  /\ \E ij \in Samples \X Samples : indicator_matrix[ij] > linkage_matrix[ij]
  /\ \E ij \in Samples \X Samples : linkage_matrix[ij] > 0

\* C2: after a scan started from zero matrices, L[i][j] is the number of
\* records that retain i and j with the same cluster id and I[i][j] the number
\* of records that retain both (diagonal included); three records that each
\* keep every sample in one cluster give L = I = all 3 and C = all 1.
AllInOneCluster(p) ==
  /\ Range(PermOf(p)) = Samples
  /\ \A x, y \in DOMAIN AssignmentOf(p) : AssignmentOf(p)[x] = AssignmentOf(p)[y]

ThreeUnanimous == Cardinality(Records) = 3 /\ \A p \in Records : AllInOneCluster(p)

C2_CountsOfRecords ==
  (pc = "returned" /\ handed = "initialization") =>
    /\ \A ij \in Samples \X Samples :
         /\ linkage_matrix[ij] =
              Cardinality({p \in Records : SameCluster(p, ij[1], ij[2])})
         /\ indicator_matrix[ij] =
              Cardinality({p \in Records : Together(p, ij[1], ij[2])})
    /\ ThreeUnanimous =>
         \A ij \in Samples \X Samples :
           /\ linkage_matrix[ij] = 3
           /\ indicator_matrix[ij] = 3
           /\ consensus_matrix[ij] = <<1, 1>>

\* C2 witness: the scenario itself, scanned to the end.
C2_Witness ==
  /\ pc = "returned"
  /\ handed = "initialization"
  /\ ThreeUnanimous
  /\ linkage_matrix[<<0, NumSamples - 1>>] = 3

\* C3: the result of a scan from zero matrices does not depend on the order in
\* which the directory listing yields the records: folding the two updates over
\* every ordering of the record set gives the L, I and C the scan produced; and
\* whether the scan ends in an error does not depend on the order either.
Orderings(S) == DistinctSeqs(S, Cardinality(S))

RECURSIVE FoldIndicator(_, _, _)
FoldIndicator(order, k, m) ==
  IF k > Len(order) THEN m
  ELSE FoldIndicator(order, k + 1, update_indicator_matrix(PermOf(order[k]), m))

RECURSIVE FoldLinkage(_, _, _)
FoldLinkage(order, k, m) ==
  IF k > Len(order) THEN m
  ELSE FoldLinkage(order, k + 1,
                   update_linkage_matrix(AssignmentOf(order[k]), PermOf(order[k]), m))

SomeRecordEmpty == \E p \in Records : Len(AssignmentOf(p)) = 0

C3_OrderIndependent ==
  /\ (pc = "returned" /\ handed = "initialization") =>
       /\ ~SomeRecordEmpty
       /\ \A order \in Orderings(Records) :
            /\ FoldLinkage(order, 1, ZeroMatrix) = linkage_matrix
            /\ FoldIndicator(order, 1, ZeroMatrix) = indicator_matrix
            /\ ConsensusOf(FoldLinkage(order, 1, ZeroMatrix),
                           FoldIndicator(order, 1, ZeroMatrix)) = consensus_matrix
  /\ (pc = "error" /\ err = "ValueError: max() arg is an empty sequence") => SomeRecordEmpty

\* C3 witness: a finished scan of three records that disagree (one co-clusters
\* samples 0 and N-1, one separates them, one retains a single sample).
C3_Witness ==
  /\ pc = "returned"
  /\ handed = "initialization"
  /\ Cardinality(Records) = 3
  /\ \E p \in Records : SameCluster(p, 0, NumSamples - 1)
  /\ \E p \in Records : Together(p, 0, NumSamples - 1) /\ ~SameCluster(p, 0, NumSamples - 1)
  /\ \E p \in Records : Len(PermOf(p)) = 1

\* C4 (as stated): calling form_consensus_matrix again on the same records,
\* with the matrices it is handed "from initialization or previous call",
\* reproduces the L, I and C of the first scan.
C4_RescanReproducesAll ==
  (pc = "returned" /\ calls >= 2) =>
    /\ linkage_matrix = first.linkage
    /\ indicator_matrix = first.indicator
    /\ consensus_matrix = first.consensus

\* C4 (amended): a rescan handed zero matrices reproduces L, I and C; a rescan
\* handed the previous call's matrices adds the record sums once more, so L and
\* I are the same whole multiple (2x, 3x, ...) of the first scan's and only C
\* is reproduced.
C4_RescanAmended ==
  (pc = "returned" /\ calls >= 2) =>
    /\ consensus_matrix = first.consensus
    /\ handed = "initialization" =>
         /\ linkage_matrix = first.linkage
         /\ indicator_matrix = first.indicator
    /\ handed = "previous call" =>
         \E n \in 2 .. calls :
           \A ij \in Samples \X Samples :
             /\ linkage_matrix[ij] = n * first.linkage[ij]
             /\ indicator_matrix[ij] = n * first.indicator[ij]

\* C4 witness: a second call handed the first call's matrices has returned with
\* L changed, over records that give a consensus strictly between 0 and 1.
C4_Witness ==
  /\ pc = "returned"
  /\ calls = 2
  /\ handed = "previous call"
  /\ linkage_matrix # first.linkage
  /\ \E ij \in Samples \X Samples : consensus_matrix[ij] = <<1, 2>>

\* C9: C[i][j] = L[i][j] / max(I[i][j], 1) with no division fault: every
\* quotient is finite, a pair never jointly sampled has C = 0, and with no
\* persisted record C is the zero matrix.
C9_ConsensusNoDivisionFault ==
  pc = "returned" =>
    /\ \A ij \in Samples \X Samples :
         /\ consensus_matrix[ij][2] > 0
         /\ consensus_matrix[ij][1] * Max2(indicator_matrix[ij], 1)
              = linkage_matrix[ij] * consensus_matrix[ij][2]
         /\ indicator_matrix[ij] = 0 => consensus_matrix[ij] = <<0, 1>>
    /\ Records = {} => consensus_matrix = [ij \in Samples \X Samples |-> <<0, 1>>]

\* C9 witness: a finished scan in which samples 0 and N-1 were each retained
\* by some record but never by the same one.
C9_Witness ==
  /\ pc = "returned"
  /\ indicator_matrix[<<0, NumSamples - 1>>] = 0
  /\ indicator_matrix[<<0, 0>>] > 0
  /\ indicator_matrix[<<NumSamples - 1, NumSamples - 1>>] > 0
  /\ consensus_matrix[<<0, NumSamples - 1>>] = <<0, 1>>

\* C10: every consensus entry lies in [0, 1], i.e. 0 <= L <= max(I, 1).
C10_ConsensusInUnitInterval ==
  pc = "returned" =>
    \A ij \in Samples \X Samples :
      /\ 0 <= linkage_matrix[ij]
      /\ linkage_matrix[ij] <= Max2(indicator_matrix[ij], 1)
      /\ consensus_matrix[ij][2] > 0
      /\ 0 <= consensus_matrix[ij][1]
      /\ consensus_matrix[ij][1] <= consensus_matrix[ij][2]

\* C10 witness: a finished scan with an entry strictly inside (0, 1), reached
\* with L >= 2 there, and an entry at 1.
C10_Witness ==
  /\ pc = "returned"
  /\ \E ij \in Samples \X Samples :
       /\ linkage_matrix[ij] >= 2
       /\ consensus_matrix[ij][1] < consensus_matrix[ij][2]
  /\ \E ij \in Samples \X Samples : consensus_matrix[ij] = <<1, 1>>

\* ------------------------------------------ properties of one run (Spec)
ScanPhase == {"get_indicator", "indicator_loop", "linkage_loop", "returned"}

\* C5: the scans of the directory begin only after every dispatched worker has
\* completed or failed, no worker writes once scanning has begun, and the
\* indicator pass and the linkage pass enumerate exactly the same records.
C5_ScanAfterBarrier ==
  pc \in ScanPhase =>
    /\ \A w \in Workers : wstate[w] \in {"done", "failed"}
    /\ \A w \in Workers : wstate[w] = "done" <=> \E p \in Records : p.seq = w
    /\ pc = "indicator_loop" => scannedI \cup TempP(dir_list) = Records
    /\ pc = "linkage_loop" =>
         /\ scannedI = Records
         /\ scannedL \cup TempP(dir_list) = Records
    /\ pc = "returned" =>
         /\ scannedI = Records
         /\ scannedL = Records

\* C5 witness: a parallel run in which one worker failed between its writes and
\* another completed, with both passes over the directory finished.
C5_Witness ==
  /\ pc = "returned"
  /\ processing_method = "parallel"
  /\ \E w \in Workers :
       /\ wstate[w] = "failed"
       /\ \E f \in DOMAIN files : f.prefix = "temp_h" /\ f.seq = w
  /\ scannedL # {}
  /\ scannedI = scannedL

\* C6: with a processing_method outside serial / parallel / distribute the
\* wrapper raises ValueError before any worker is invoked and before any record
\* is persisted; no strategy is used as a fallback.
C6_BadMethodRaisesBeforeWork ==
  processing_method \notin Methods =>
    /\ pc \in {"start", "dispatch", "error"}
    /\ \A w \in Workers : wstate[w] = "idle"
    /\ DOMAIN files = {}
    /\ pc = "error" => err = "ValueError: processing_method contains bad value."

\* C6 witness: the ValueError has been raised for a bad processing_method.
C6_Witness ==
  /\ processing_method \notin Methods
  /\ pc = "error"
  /\ err = "ValueError: processing_method contains bad value."

\* C7 (as stated): when the wrapper raises for an unrecognized
\* processing_method the filesystem is as before the call: no temporary
\* directory and no record file has been created or left behind.
C7_ConfigErrorLeavesNothing ==
  (pc = "error" /\ processing_method \notin Methods) =>
    /\ dirs = {}
    /\ DOMAIN files = {}

\* C8 (as stated): when some workers never persist a record, aggregation
\* completes without error and L and I are the sums over the persisted records.
C8_MissingRecordsNoError ==
  (\E w \in Workers : wstate[w] = "failed") =>
    /\ err \notin {"ValueError: max() arg is an empty sequence", "FileNotFoundError"}
    /\ pc = "returned" =>
         \A ij \in Samples \X Samples :
           /\ linkage_matrix[ij] =
                Cardinality({p \in Records : SameCluster(p, ij[1], ij[2])})
           /\ indicator_matrix[ij] =
                Cardinality({p \in Records : Together(p, ij[1], ij[2])})

\* ------------------------------------------------------------------ C11
Symmetric(m) == \A ij \in Samples \X Samples : m[ij] = m[<<ij[2], ij[1]>>]

\* C11: after any sequence of processed records, at every point of either
\* pass and after the return, the linkage matrix and the indicator matrix
\* are symmetric.
C11_MatricesSymmetric ==
  Accumulating => Symmetric(linkage_matrix) /\ Symmetric(indicator_matrix)

\* the linkage pass has processed records and an off-diagonal pair is linked
\* by one of them, fewer times than it was sampled together
C11_Witness ==
  /\ pc = "linkage_loop"
  /\ scannedL # {}
  /\ \E i, j \in Samples :
       /\ i # j
       /\ linkage_matrix[<<i, j>>] > 0
       /\ linkage_matrix[<<i, j>>] < indicator_matrix[<<i, j>>]

\* ------------------------------------------------------------------ C12
\* the dispatch call has returned and teardown has not run
PastBarrier == pc \in ScanPhase \cup {"zeros", "teardown"}

\* the files of the temporary directory written for replicate w
FilesOf(w) == {f \in ListDir(tmp_directory) : f.seq = w}

WorkerWrote == pc \in {"fanout", "serial_loop"} /\ files' # files

\* C13: under every interleaving of the workers, equal timestamps included,
\* each write of a worker creates a file name that was not in the store (by
\* one, leaving every file already there as it was), and every file carries
\* the replicate id of a worker that has reached its writes: no two workers
\* share a name and no record is overwritten or mixed.
C13_DistinctNames ==
  [][/\ WorkerWrote =>
          /\ DOMAIN files \subseteq DOMAIN files'
          /\ Cardinality(DOMAIN files') = Cardinality(DOMAIN files) + 1
          /\ \A f \in DOMAIN files : files'[f] = files[f]
          /\ \E w \in Workers :
               /\ wstate[w] # wstate'[w]
               /\ \A f \in DOMAIN files' \ DOMAIN files : f.seq = w
     /\ \A f \in DOMAIN files' : wstate'[f.seq] \in {"saving", "done", "failed"}
    ]_vars

\* two concurrent workers drew the same timestamp and both completed: four
\* distinct files
C13_Witness ==
  /\ pc = "fanout"
  /\ \A w \in Workers : wstate[w] = "done"
  /\ \A f, g \in DOMAIN files : f.stamp = g.stamp
  /\ Cardinality(DOMAIN files) = 2 * NumBootstraps

\* ------------------------------------------------------------------ C14
\* a file or a directory of the store is gone after the step
Deleted == DOMAIN files \ DOMAIN files' # {} \/ dirs \ dirs' # {}

\* C14: teardown is reached only after form_consensus_matrix has returned
\* without error; nothing is deleted by any other step; teardown removes
\* every file of the temporary directory and the directory itself, so after
\* a successful run neither remains; and a run that has raised keeps its
\* temporary directory.
C14_TeardownAfterAggregation ==
  /\ [](pc \in {"teardown", "done"} => consensus_matrix # NoMatrix /\ err = "none")
  /\ [](pc = "done" => ListDir(tmp_directory) = {} /\ tmp_directory \notin dirs)
  /\ [](pc = "error" => tmp_directory \in dirs)
  /\ [][Deleted => /\ pc = "teardown"
                   /\ pc' = "done"
                   /\ \A f \in DOMAIN files' : f.dir # tmp_directory
                   /\ dirs' = dirs \ {tmp_directory}]_vars

\* a run whose two replicates were saved and linked some pair has completed:
\* the records and their directory are gone
C14_Witness ==
  /\ pc = "done"
  /\ \A w \in Workers : wstate[w] = "done"
  /\ \E ij \in Samples \X Samples : linkage_matrix[ij] > 1
  /\ DOMAIN files = {}
  /\ dirs = {}

\* ------------------------------------------------------------------ C15
\* no step changes the content of a file that stays in the store
NoRewrite == \A f \in DOMAIN files \cap DOMAIN files' : files'[f] = files[f]

\* C15 as stated: during one aggregation no file of a record is loaded more
\* than once, and no file is changed in place.
C15_ReadAtMostOnce ==
  /\ [](\A f \in DOMAIN reads : reads[f] <= 1)
  /\ [][NoRewrite]_vars

\* C15 amended: during one aggregation a record's permutation file is loaded
\* at most once by each pass (twice once aggregation has returned: by
\* get_indicator_matrix and again by get_linkage_matrix) and its assignment
\* file once, by the linkage pass; no file is changed in place between its
\* creation and teardown.
C15_ReadOncePerPass ==
  /\ [](\A f \in DOMAIN reads :
          /\ f.prefix = "temp_p" => reads[f] <= 2
          /\ f.prefix = "temp_h" => reads[f] <= 1
          /\ pc = "indicator_loop" => reads[f] <= 1)
  /\ [](pc = "returned" =>
          \A p \in Records : reads[p] = 2 /\ reads[HNameOf(p)] = 1)
  /\ [][NoRewrite]_vars

\* aggregation has returned over the records of two completed replicates
C15_Witness ==
  /\ pc = "returned"
  /\ Cardinality(Records) = NumBootstraps
  /\ \A p \in Records : reads[p] = 2 /\ reads[HNameOf(p)] = 1

\* ------------------------------------------------------------------ C16
\* C16: in every processing mode, once the temporary directory is set up, the
\* directory the aggregator lists (recomputed from the shared volume and the
\* base name in 'distribute' mode) is run_parameters['tmp_directory'], the
\* one teardown removes; every file the workers wrote is in it; and it lies
\* under the shared volume in 'distribute' mode and under the run directory
\* in 'serial' and 'parallel' mode.
C16_OneDirectory ==
  (tmp_directory # NoDir /\ processing_method \in Methods) =>
    /\ ScanDir = tmp_directory
    /\ \A f \in DOMAIN files : f.dir = ScanDir
    /\ processing_method = "distribute" => tmp_directory.root = "cluster_shared_volumn"
    /\ processing_method \in {"serial", "parallel"} => tmp_directory.root = "run_directory"
    /\ pc \notin {"start", "done"} => ScanDir \in dirs

\* the linkage pass of a distributed run is reading the records the workers
\* wrote to the shared volume
C16_Witness ==
  /\ processing_method = "distribute"
  /\ pc = "linkage_loop"
  /\ scannedL # {}
  /\ \A w \in Workers : wstate[w] = "done"
  /\ Cardinality(ListDir(ScanDir)) = 2 * NumBootstraps

\* ------------------------------------------------------------------ C17
\* the wrapper has not yet come back from the dispatch of the workers
BeforeZeros == pc \in {"start", "dispatch", "fanout", "serial_loop", "zeros"}

\* some worker's position changes in the step
WorkerStep == \E w \in Workers : wstate'[w] # wstate[w]

\* C17: the linkage and indicator accumulators do not exist before the
\* dispatch call has returned; they are all-zero N x N when aggregation
\* starts; no step of a worker reads or changes them; and once they exist no
\* step decreases any of their entries.
C17_AccumulatorsOnlyGrow ==
  /\ [](BeforeZeros => linkage_matrix = NoMatrix /\ indicator_matrix = NoMatrix)
  /\ [](pc = "get_indicator" =>
          /\ DOMAIN linkage_matrix = Samples \X Samples
          /\ DOMAIN indicator_matrix = Samples \X Samples
          /\ \A ij \in Samples \X Samples :
               linkage_matrix[ij] = 0 /\ indicator_matrix[ij] = 0)
  /\ [][WorkerStep =>
          /\ linkage_matrix = NoMatrix /\ indicator_matrix = NoMatrix
          /\ UNCHANGED <<linkage_matrix, indicator_matrix>>]_vars
  /\ [][(Accumulating /\ Accumulating') =>
          \A ij \in Samples \X Samples :
            /\ linkage_matrix'[ij] >= linkage_matrix[ij]
            /\ indicator_matrix'[ij] >= indicator_matrix[ij]]_vars

\* both replicates' records have been added: some cell was incremented twice
\* and some cell is still zero
C17_Witness ==
  /\ pc = "returned"
  /\ \E ij \in Samples \X Samples : linkage_matrix[ij] = 2
  /\ \E ij \in Samples \X Samples : indicator_matrix[ij] = 0

\* ------------------------------------------------------------------ C18
\* the records a pass has loaded in the step
JustScanned == (scannedI' \ scannedI) \cup (scannedL' \ scannedL)

\* cell ij lies outside the block perm x perm
OutsideBlock(ij, perm) == ij[1] \notin Range(perm) \/ ij[2] \notin Range(perm)

\* C18: the step that processes one record leaves every cell of the linkage
\* and of the indicator matrix unchanged unless both its row and its column
\* are in that record's permutation.
C18_FrameOfOneRecord ==
  [][\A p \in JustScanned :
       \A ij \in Samples \X Samples :
         OutsideBlock(ij, PermOf(p)) =>
           /\ linkage_matrix'[ij] = linkage_matrix[ij]
           /\ indicator_matrix'[ij] = indicator_matrix[ij]]_vars

\* both passes have processed a record that retains some sample and drops
\* another: the retained one's cells are counted, the dropped one's are zero
C18_Witness ==
  /\ pc = "linkage_loop"
  /\ \E p \in scannedL :
       \E s, t \in Samples :
         /\ s \in Range(PermOf(p))
         /\ t \notin Range(PermOf(p))
         /\ linkage_matrix[<<s, s>>] > 0
         /\ indicator_matrix[<<s, s>>] > 0
         /\ linkage_matrix[<<t, t>>] = 0
         /\ indicator_matrix[<<s, t>>] = 0

\* ------------------------------------------------------------------ C19
\* the assignment file worker w has written, while w is between its writes
SavedAssignment(w) == files[FileName(tmp_directory, "temp_h", w, wlocal[w].stamp)]

\* C19: for every H a worker factorized (NumClusters rows, one column per
\* retained sample) the assignment it persisted has one entry per entry of
\* the permutation, every entry is a cluster id 0..NumClusters-1, and entry j
\* is the first row holding the maximum of column j of H.
C19_AssignmentIsArgMax ==
  \A w \in Workers :
    wstate[w] = "saving" =>
      LET a == SavedAssignment(w)
          h == wlocal[w].h
      IN /\ DOMAIN a = DOMAIN wlocal[w].perm
         /\ \A j \in DOMAIN a :
              /\ a[j] \in Clusters
              /\ \A d \in Clusters : h[d][j] <= h[a[j]][j]
              /\ \A d \in Clusters : d < a[j] => h[d][j] < h[a[j]][j]

\* a worker has persisted the assignment of an H with a tied column (given
\* to the first row) and a column whose maximum is in the last row
C19_Witness ==
  \E w \in Workers :
    /\ wstate[w] = "saving"
    /\ Len(wlocal[w].perm) = NumSamples
    /\ \E j, k \in DOMAIN wlocal[w].perm :
         /\ wlocal[w].h[0][j] = wlocal[w].h[NumClusters - 1][j]
         /\ SavedAssignment(w)[j] = 0
         /\ wlocal[w].h[NumClusters - 1][k] > wlocal[w].h[0][k]
         /\ SavedAssignment(w)[k] = NumClusters - 1

\* ------------------------------------------------------------------ C20
\* the permutation files in the store
AllTempP == TempP(DOMAIN files)

\* C20: a worker between its writes has its assignment file in the store and
\* no permutation file yet; in every state of the store, a worker lost
\* between its two writes included, every permutation file has the
\* assignment file of the same suffix, with one entry per entry of the
\* permutation; and the linkage pass never fails to find an assignment file.
C20_AssignmentBeforePermutation ==
  /\ \A w \in Workers :
       wstate[w] = "saving" =>
         /\ FileName(tmp_directory, "temp_h", w, wlocal[w].stamp) \in DOMAIN files
         /\ \A p \in AllTempP : p.seq # w
  /\ \A p \in AllTempP :
       /\ HNameOf(p) \in DOMAIN files
       /\ DOMAIN files[HNameOf(p)] = DOMAIN files[p]
  /\ err # "FileNotFoundError"

\* a worker was lost between its two writes (its assignment file is an
\* orphan) and aggregation has returned over the other worker's record
C20_Witness ==
  /\ pc = "returned"
  /\ \E w \in Workers :
       /\ wstate[w] = "failed"
       /\ \E f \in DOMAIN files : f.seq = w /\ f.prefix = "temp_h"
       /\ \A p \in AllTempP : p.seq # w
  /\ scannedL # {}
  /\ scannedL = AllTempP

\* ------------------------------------------------------------------ C21
\* a record whose permutation and assignment are empty (every sampled column
\* was dropped)
EmptyRecord(p) == Len(PermOf(p)) = 0 /\ Len(AssignmentOf(p)) = 0

\* C21 (as stated): the step of either pass that processes an empty record
\* raises no error and leaves the linkage and the indicator matrix unchanged.
C21_EmptyRecordAccepted ==
  [][\A p \in JustScanned :
       EmptyRecord(p) =>
         /\ pc' # "error"
         /\ err' = err
         /\ UNCHANGED <<linkage_matrix, indicator_matrix>>]_vars
====
